---- MODULE Spec2Model ----
(***************************************************************************)
(* Team & topic allocation engine of worunie-2025 (src/app/team_service.py,*)
(* src/app/topic_service.py, src/app/user_service.py, src/db_viewer.py).   *)
(*                                                                         *)
(* The store is three tables: teams (rows are never hard-deleted, the row  *)
(* id is the index in the sequence), team_members (a bag of rows: nothing  *)
(* in the schema keeps two equal rows apart) and users (the participant    *)
(* directory).  Every add_member_to_team call is a process whose steps are *)
(* the SQL statements of the method, in order; statements of different     *)
(* calls interleave freely, the reads being unlocked autocommit SELECTs.   *)
(***************************************************************************)
EXTENDS Bags, FiniteSets, Integers, Sequences, TLC

\* ------------------------------------------------------------ constants
MAX_TEAMS_5 == 10
MAX_TEAMS_4 == 2
\* the literal 5 of "current_member_count >= 5"
TEAM_CEILING == 5
\* the literal 4 of "current_member_count >= 4"
TIER_THRESHOLD == 4

\* ---------------------------------------------------------------- bounds
\* concurrent add_member_to_team calls
MaxCalls == 2
\* participants that are in no team initially
MaxFree == 2
\* readings of the wall clock (datetime.utcnow) by create_team
MaxClock == 2

\* --------------------------------------------------------------- universe
AllNames == <<"Alpha", "Beta", "Gamma", "Delta", "Epsilon", "Zeta", "Eta", "Theta">>
\* enough names to reach the global ceiling of active teams and one more
CapacityNames == AllNames \o <<"Iota", "Kappa", "Lambda", "Mu", "Nu">>
\* the names the team operations are called with
TeamNames == SubSeq(AllNames, 1, 3)
NameSet == {TeamNames[i] : i \in 1..Len(TeamNames)}
Procs == 1..MaxCalls
FreeUsers == 1..MaxFree
\* the k-th participant seeded into team row i, and the creator of row i
SeedMember(i, k) == 10 * i + k
SeedCreator(i) == 100 + i
SeedUsers == {SeedMember(i, k) : i \in 1..Len(TeamNames), k \in 1..TEAM_CEILING}
Creators == {SeedCreator(i) : i \in 1..Len(CapacityNames)}
UserIds == FreeUsers \cup SeedUsers \cup Creators

\* users.position values: the four of POSITIONS, one the mapping does not
\* know, and the empty value (NULL or '')
NoPosition == ""
POSITIONS == {"Frontend", "Backend", "Planning", "Design"}
DbPositions == POSITIONS \cup {"Other", NoPosition}

\* the mapping with two codes exchanged
position_mapping_exchanged(db_position) ==
    CASE db_position = "Backend" -> "BE"
      [] db_position = "Frontend" -> "FE"
      [] db_position = "Design" -> "Planner"
      [] db_position = "Planning" -> "Designer"
      [] OTHER -> NoPosition

\* a mapping that knows three of the four categories
position_mapping_without_design(db_position) ==
    CASE db_position = "Backend" -> "BE"
      [] db_position = "Frontend" -> "FE"
      [] db_position = "Planning" -> "Planner"
      [] OTHER -> NoPosition

position_mapping(db_position) ==
    CASE db_position = "Backend" -> "BE"
      [] db_position = "Frontend" -> "FE"
      [] db_position = "Design" -> "Designer"
      [] db_position = "Planning" -> "Planner"
      [] OTHER -> NoPosition

\* ------------------------------------------------------------- topics
\* no definition of these two is part of src/app/models.py; 6 is the quota
\* slash_commands.py prints, WORK and RUN are the values get_topic_counts counts
MAX_TEAMS_PER_TOPIC == 6
\* the start of the selection window, 15:30
START_HOUR == 15
START_MINUTE == 30
TOPICS == {"WORK", "RUN"}

\* what a caller may type, and str.upper() of it
TopicInputs == {"WORK", "run", "PLAY"}
UpperIdentity(topic) == topic

Upper(topic) ==
    CASE topic = "run" -> "RUN" [] topic = "work" -> "WORK" [] OTHER -> topic

VARIABLES teams, members, users, calls, clock, reply, selections, tcalls

vars == <<teams, members, users, calls, clock, reply, selections, tcalls>>

\* ------------------------------------------------------------- the tables
TeamIds == 1..Len(teams)

\* Team.name == name, Team.is_active == True  (.first(): name is unique)
ActiveTeamNamed(name) == {i \in TeamIds : teams[i].name = name /\ teams[i].is_active}
InactiveTeamNamed(name) == {i \in TeamIds : teams[i].name = name /\ ~teams[i].is_active}
ActiveTeams == {i \in TeamIds : teams[i].is_active}

MemberRow(team_id, user_id, position) ==
    [team_id |-> team_id, user_id |-> user_id, position |-> position]

RowsOfTeam(team_id) == {r \in BagToSet(members) : r.team_id = team_id}
RowsOfUser(user_id) == {r \in BagToSet(members) : r.user_id = user_id}

RECURSIVE SumCopies(_)
SumCopies(rows) ==
    IF rows = {} THEN 0
    ELSE LET r == CHOOSE x \in rows : TRUE
         IN CopiesIn(r, members) + SumCopies(rows \ {r})

\* query(TeamMember).filter(TeamMember.team_id == id).count()
MemberCount(team_id) == SumCopies(RowsOfTeam(team_id))
\* rows referencing one participant, system-wide
UserRowCount(user_id) == SumCopies(RowsOfUser(user_id))

\* ------------------------------------------------------------------ Init
\* position of the k-th seeded participant (all four categories occur)
SeedPosition(k) ==
    CASE k = 1 -> "Backend" [] k = 2 -> "Frontend" [] k = 3 -> "Design"
      [] k = 4 -> "Planning" [] OTHER -> "Backend"

SeedRows(fill) ==
    {MemberRow(ik[1], SeedMember(ik[1], ik[2]), position_mapping(SeedPosition(ik[2]))) :
        ik \in {x \in (DOMAIN fill) \X (1..TEAM_CEILING) : x[2] <= fill[x[1]]}}

\* a call is at a statement of add_member_to_team or of delete_team, or "idle"
\* (not called yet, or returned: result is then what the last call returned);
\* loaded holds the rows delete_team's members query returned
IdleCall ==
    [pc |-> "idle", team_name |-> "", user_id |-> 0, team_id |-> 0,
     db_position |-> NoPosition, loaded |-> EmptyBag, result |-> "none",
     caller_id |-> 0]

NoReply == [op |-> "none", result |-> "none"]

\* a select_topic call: existing is the id of the row existing_selection
\* holds (0: None) and existing_topic the topic loaded with it
IdleTopicCall ==
    [pc |-> "idle", team_name |-> "", topic_upper |-> "", creator_id |-> 0,
     team_id |-> 0, existing |-> 0, existing_topic |-> "", work_count |-> 0,
     run_count |-> 0, result |-> "none"]

\* the participants add_member_to_team and remove_member_from_team are
\* called for: the free ones and one that sits in team row 1
Targets == FreeUsers \cup {SeedMember(1, 1)}

\* The store with the first n names created and row i holding fill[i] seeded
\* rows; the free participants have the directory entries free[u].
Store(n, fill, free) ==
    /\ teams = [i \in 1..n |->
                  [name |-> AllNames[i], is_active |-> TRUE,
                   creator_id |-> SeedCreator(i), created_at |-> 0]]
    /\ members = SetToBag(SeedRows(fill))
    /\ users = [u \in UserIds |->
                  IF u \in FreeUsers THEN free[u]
                  ELSE IF u \in SeedUsers
                  THEN [is_active |-> TRUE, position |-> SeedPosition(u % 10)]
                  ELSE [is_active |-> FALSE, position |-> NoPosition]]
    /\ calls = [p \in Procs |-> IdleCall]
    /\ clock = 1
    /\ reply = NoReply
    /\ selections = <<>>
    /\ tcalls = [p \in Procs |-> IdleTopicCall]

\* what a run of sequential add_member_to_team calls can produce: at most
\* MAX_TEAMS_4 teams hold TEAM_CEILING rows
Fills(n) ==
    {fill \in [1..n -> {3, 4, 5}] :
        Cardinality({i \in 1..n : fill[i] = TEAM_CEILING}) <= MAX_TEAMS_4}

Registered == [u \in FreeUsers |-> [is_active |-> TRUE, position |-> SeedPosition(u)]]

Init ==
    \E n \in {Len(TeamNames)} :
      \E fill \in Fills(n) : Store(n, fill, Registered)

\* ------------------------------------------ add_member_to_team, by statement
Return(p, result) ==
    calls' = [calls EXCEPT ![p] = [IdleCall EXCEPT !.result = result]]

\* a next statement taken only while no other call is in progress
GotoWaiting(p, pc) ==
    calls' = [calls EXCEPT ![p].pc =
                 IF \E q \in Procs \ {p} : calls[q].pc # "idle"
                 THEN calls[p].pc ELSE pc]

\* the call goes on to its next statement
Goto(p, pc) == calls' = [calls EXCEPT ![p].pc = pc]

\* team = query(Team).filter(name, is_active).first()
AddFindTeam(p, team_name, user_id) ==
    /\ calls[p].pc = "idle"
    /\ LET found == ActiveTeamNamed(team_name)
       IN IF found = {}
          THEN Return(p, "TeamNotFound")
          ELSE calls' = [calls EXCEPT
                   ![p] = [IdleCall EXCEPT
                             !.pc = "get_user_info", !.team_name = team_name,
                             !.user_id = user_id,
                             !.team_id = CHOOSE i \in found : TRUE]]
    /\ UNCHANGED <<teams, members, users, clock, reply, selections, tcalls>>

\* user_service.get_user_info(user_id), then the position mapping
AddGetUserInfo(p) ==
    /\ calls[p].pc = "get_user_info"
    /\ LET user == users[calls[p].user_id]
       IN IF ~user.is_active
          THEN Return(p, "UnregisteredParticipant")
          ELSE IF user.position = NoPosition
          THEN Return(p, "NoCategoryAssigned")
          ELSE IF position_mapping(user.position) = NoPosition
          THEN Return(p, "PositionNotInMapping")
          ELSE calls' = [calls EXCEPT ![p].pc = "existing_member",
                                      ![p].db_position = user.position]
    /\ UNCHANGED <<teams, members, users, clock, reply, selections, tcalls>>

\* a membership test that never finds a row
ExistingMemberNever(user_id) == FALSE

\* existing_member = query(TeamMember).filter(user_id).first()
ExistingMember(user_id) == RowsOfUser(user_id) # {}

AddExistingMember(p) ==
    /\ calls[p].pc = "existing_member"
    /\ IF ExistingMember(calls[p].user_id)
       THEN Return(p, "AlreadyAssigned")
       ELSE Goto(p, "current_members")
    /\ UNCHANGED <<teams, members, users, clock, reply, selections, tcalls>>

\* the ceiling compared with > instead of >=
AfterCountOffByOne(count) ==
    IF count > TEAM_CEILING THEN "TeamFull"
    ELSE IF count >= TIER_THRESHOLD THEN "tier_check"
    ELSE "insert"

\* which check follows a reading of current_member_count
AfterCount(count) ==
    IF count >= TEAM_CEILING THEN "TeamFull"
    ELSE IF count >= TIER_THRESHOLD THEN "tier_check"
    ELSE "insert"

\* current_members = query(TeamMember).filter(team_id == team.id).all()
AddCurrentMembers(p) ==
    /\ calls[p].pc = "current_members"
    /\ LET current_member_count == MemberCount(calls[p].team_id)
       IN IF AfterCount(current_member_count) = "TeamFull"
          THEN Return(p, "TeamFull")
          ELSE Goto(p, AfterCount(current_member_count))
    /\ UNCHANGED <<teams, members, users, clock, reply, selections, tcalls>>

\* team_count_4: the other active teams with at least 4 rows
TeamCount4(team_id) ==
    Cardinality({t \in ActiveTeams \ {team_id} : MemberCount(t) >= TIER_THRESHOLD})

AddTierCheck(p) ==
    /\ calls[p].pc = "tier_check"
    /\ IF TeamCount4(calls[p].team_id) >= MAX_TEAMS_4
       THEN Return(p, "FourPersonTierExhausted")
       ELSE Goto(p, "insert")
    /\ UNCHANGED <<teams, members, users, clock, reply, selections, tcalls>>

\* db.add(new_member); db.commit()
AddInsert(p) ==
    /\ calls[p].pc = "insert"
    /\ members' = members (+) SetToBag({MemberRow(calls[p].team_id,
                      calls[p].user_id, position_mapping(calls[p].db_position))})
    /\ Return(p, "Success")
    /\ UNCHANGED <<teams, users, clock, reply, selections, tcalls>>

\* --------------------------------------------------- the one-step operations
Reply(op, result) == reply' = [op |-> op, result |-> result]

\* who calls: the creator of team row 1 and a free participant
Actors == {SeedCreator(1), 1}

NewTeam(team_name, creator_id) ==
    [name |-> team_name, is_active |-> TRUE, creator_id |-> creator_id,
     created_at |-> clock]

\* a revival that keeps the former creator
ReactivatedKeepingCreator(team, creator_id) ==
    [team EXCEPT !.is_active = TRUE, !.created_at = clock]

\* the row create_team revives: the flag, the creator and the timestamp
Reactivated(team, creator_id) ==
    [team EXCEPT !.is_active = TRUE, !.creator_id = creator_id,
                 !.created_at = clock]

\* the tests without the one for an active team of that name
CreateOutcomeNoDuplicateTest(team_name) ==
    IF InactiveTeamNamed(team_name) # {} THEN "Reactivated"
    ELSE IF Cardinality(ActiveTeams) >= MAX_TEAMS_5 + MAX_TEAMS_4
    THEN "GlobalTeamCapacityExceeded"
    ELSE "Created"

\* create_team's tests, in the order of the code
CreateOutcome(team_name) ==
    IF ActiveTeamNamed(team_name) # {} THEN "DuplicateActiveName"
    ELSE IF InactiveTeamNamed(team_name) # {} THEN "Reactivated"
    ELSE IF Cardinality(ActiveTeams) >= MAX_TEAMS_5 + MAX_TEAMS_4
    THEN "GlobalTeamCapacityExceeded"
    ELSE "Created"

create_team(team_name, creator_id) ==
    /\ clock <= MaxClock
    /\ IF CreateOutcome(team_name) = "DuplicateActiveName"
       THEN /\ Reply("create_team", "DuplicateActiveName")
            /\ UNCHANGED <<teams, clock>>
       ELSE IF CreateOutcome(team_name) = "Reactivated"
       THEN LET i == CHOOSE x \in InactiveTeamNamed(team_name) : TRUE
            IN /\ teams' = [teams EXCEPT ![i] = Reactivated(teams[i], creator_id)]
               /\ clock' = clock + 1
               /\ Reply("create_team", "Reactivated")
       ELSE IF CreateOutcome(team_name) = "GlobalTeamCapacityExceeded"
       THEN /\ Reply("create_team", "GlobalTeamCapacityExceeded")
            /\ UNCHANGED <<teams, clock>>
       ELSE /\ teams' = Append(teams, NewTeam(team_name, creator_id))
            /\ clock' = clock + 1
            /\ Reply("create_team", "Created")
    /\ UNCHANGED <<members, users, calls, selections, tcalls>>

\* no test of who calls
AuthorizedAnyone(team, user_id, is_staff) == TRUE

\* the creator-or-staff test of delete_team and remove_member_from_team
Authorized(team, user_id, is_staff) == team.creator_id = user_id \/ is_staff

\* a deletion that leaves the rows of the team
WithoutTeamKeepingRows(team_id) == members

\* the bag without every row of one team
WithoutTeam(team_id) ==
    [r \in BagToSet(members) \ RowsOfTeam(team_id) |-> members[r]]

delete_team(team_name, user_id, is_staff) ==
    /\ LET found == ActiveTeamNamed(team_name)
       IN IF found = {}
          THEN /\ Reply("delete_team", "TeamNotFound")
               /\ UNCHANGED <<teams, members>>
          ELSE LET i == CHOOSE x \in found : TRUE
               IN IF ~Authorized(teams[i], user_id, is_staff)
                  THEN /\ Reply("delete_team", "NotAuthorized")
                       /\ UNCHANGED <<teams, members>>
                  ELSE /\ members' = WithoutTeam(i)
                       /\ teams' = [teams EXCEPT ![i].is_active = FALSE]
                       /\ Reply("delete_team", "Success")
    /\ UNCHANGED <<users, calls, clock, selections, tcalls>>

\* the test with a minimum of zero rows
BelowMinimumOffByOne(total_members) == total_members <= 0

\* the test on total_members before a removal that is not staff's
BelowMinimum(total_members) == total_members <= 1

remove_member_from_team(team_name, target_user_id, user_id, is_staff) ==
    /\ LET found == ActiveTeamNamed(team_name)
       IN IF found = {}
          THEN /\ Reply("remove_member", "TeamNotFound")
               /\ UNCHANGED members
          ELSE LET i == CHOOSE x \in found : TRUE
                   rows == {r \in RowsOfTeam(i) : r.user_id = target_user_id}
               IN IF ~Authorized(teams[i], user_id, is_staff)
                  THEN /\ Reply("remove_member", "NotAuthorized")
                       /\ UNCHANGED members
                  ELSE IF rows = {}
                  THEN /\ Reply("remove_member", "NotAMember")
                       /\ UNCHANGED members
                  ELSE IF target_user_id = user_id /\ ~is_staff
                  THEN /\ Reply("remove_member", "CannotRemoveSelf")
                       /\ UNCHANGED members
                  ELSE IF ~is_staff /\ BelowMinimum(MemberCount(i))
                  THEN /\ Reply("remove_member", "MinimumHeadcount")
                       /\ UNCHANGED members
                  ELSE /\ \E r \in rows : members' = members (-) SetToBag({r})
                       /\ Reply("remove_member", "Success")
    /\ UNCHANGED <<teams, users, calls, clock, selections, tcalls>>

\* the admin surface: UPDATE teams SET is_active = 0 WHERE id = ? AND is_active = 1
admin_delete_team(team_id) ==
    /\ team_id \in ActiveTeams
    /\ teams' = [teams EXCEPT ![team_id].is_active = FALSE]
    /\ UNCHANGED <<members, users, calls, clock, reply, selections, tcalls>>

\* the admin surface: UPDATE users SET ..., position = ? WHERE user_id = ? AND is_active = 1
admin_edit_user(user_id, position) ==
    /\ users[user_id].is_active
    /\ users[user_id].position # position
    /\ users' = [users EXCEPT ![user_id].position = position]
    /\ UNCHANGED <<teams, members, calls, clock, reply, selections, tcalls>>

\* the admin surface: UPDATE users SET is_active = 0 WHERE user_id = ? AND is_active = 1
admin_delete_user(user_id) ==
    /\ users[user_id].is_active
    /\ users' = [users EXCEPT ![user_id].is_active = FALSE]
    /\ UNCHANGED <<teams, members, calls, clock, reply, selections, tcalls>>

\* ------------------------------------------------- delete_team, by statement
\* the team query and the creator-or-staff test
DelFindTeam(p, team_name, user_id, is_staff) ==
    /\ calls[p].pc = "idle"
    /\ LET found == ActiveTeamNamed(team_name)
       IN IF found = {}
          THEN Return(p, "TeamNotFound")
          ELSE IF ~Authorized(teams[CHOOSE i \in found : TRUE], user_id, is_staff)
          THEN Return(p, "NotAuthorized")
          ELSE calls' = [calls EXCEPT
                   ![p] = [IdleCall EXCEPT
                             !.pc = "del_members", !.team_name = team_name,
                             !.user_id = user_id,
                             !.team_id = CHOOSE i \in found : TRUE]]
    /\ UNCHANGED <<teams, members, users, clock, reply, selections, tcalls>>

\* members = query(TeamMember).filter(team_id == team.id).all()
DelMembers(p) ==
    /\ calls[p].pc = "del_members"
    /\ calls' = [calls EXCEPT
           ![p].pc = "del_commit",
           ![p].loaded = [r \in RowsOfTeam(calls[p].team_id) |-> members[r]]]
    /\ UNCHANGED <<teams, members, users, clock, reply, selections, tcalls>>

\* db.delete(member) for the loaded rows; team.is_active = False; db.commit()
DelCommit(p) ==
    /\ calls[p].pc = "del_commit"
    /\ members' = members (-) calls[p].loaded
    /\ teams' = [teams EXCEPT ![calls[p].team_id].is_active = FALSE]
    /\ Return(p, "Success")
    /\ UNCHANGED <<users, clock, reply, selections, tcalls>>

\* ------------------------------------------------ select_topic, by statement
SelectionIds == 1..Len(selections)

\* the row select_topic adds; the flag and the two timestamps are column defaults
NewSelection(team_id, team_name, topic, creator_id) ==
    [team_id |-> team_id, team_name |-> team_name, topic |-> topic,
     creator_id |-> creator_id, is_active |-> TRUE, created_at |-> clock,
     updated_at |-> clock]

\* query(TopicSelection).filter(topic, is_active).count()
TopicCount(topic) ==
    Cardinality({i \in SelectionIds :
                    selections[i].topic = topic /\ selections[i].is_active})

\* what get_topic_counts returns
get_topic_counts ==
    [work_count |-> TopicCount("WORK"),
     run_count |-> TopicCount("RUN"),
     work_available |-> TopicCount("WORK") < MAX_TEAMS_PER_TOPIC,
     run_available |-> TopicCount("RUN") < MAX_TEAMS_PER_TOPIC]

\* query(TopicSelection).filter(team_name, is_active)
SelectionsOfTeam(team_name) ==
    {i \in SelectionIds :
        selections[i].team_name = team_name /\ selections[i].is_active}

TopicReturn(p, result) ==
    tcalls' = [tcalls EXCEPT ![p] = [IdleTopicCall EXCEPT !.result = result]]

\* the wall clock in Asia/Seoul, in minutes since midnight of the day
MinutesPerDay == 24 * 60
WallClock == {0, START_HOUR * 60 + START_MINUTE - 1, START_HOUR * 60 + START_MINUTE,
              MinutesPerDay - 1}

\* a gate that looks at the hour only
is_selection_time_hour_only(now) == now >= START_HOUR * 60

\* now >= now.replace(hour=15, minute=30, second=0, microsecond=0)
is_selection_time(now) == now >= START_HOUR * 60 + START_MINUTE

\* no test of who selects
IsCreatorAnyone(team, creator_id) == TRUE

\* team.creator_id != creator_id
IsCreator(team, creator_id) == team.creator_id = creator_id

\* the time gate, the topic check, the team query and the creator check
SelFindTeam(p, team_name, topic, creator_id, now) ==
    /\ tcalls[p].pc = "idle"
    /\ LET topic_upper == Upper(topic)
           found == ActiveTeamNamed(team_name)
       IN IF ~is_selection_time(now)
          THEN TopicReturn(p, "OutsideSelectionWindow")
          ELSE IF topic_upper \notin TOPICS
          THEN TopicReturn(p, "InvalidTopic")
          ELSE IF found = {}
          THEN TopicReturn(p, "TeamNotFound")
          ELSE IF ~IsCreator(teams[CHOOSE i \in found : TRUE], creator_id)
          THEN TopicReturn(p, "NotAuthorized")
          ELSE tcalls' = [tcalls EXCEPT
                   ![p] = [IdleTopicCall EXCEPT
                             !.pc = "existing_selection",
                             !.team_name = team_name,
                             !.topic_upper = topic_upper,
                             !.creator_id = creator_id,
                             !.team_id = CHOOSE i \in found : TRUE]]
    /\ UNCHANGED <<teams, members, users, calls, clock, reply, selections>>

\* existing_selection = query(TopicSelection).filter(team_name, is_active).first()
SelExistingSelection(p) ==
    /\ tcalls[p].pc = "existing_selection"
    /\ LET rows == SelectionsOfTeam(tcalls[p].team_name)
           first == IF rows = {} THEN 0
                    ELSE CHOOSE i \in rows : \A j \in rows : i <= j
       IN tcalls' = [tcalls EXCEPT
              ![p].pc = "work_count",
              ![p].existing = first,
              ![p].existing_topic =
                  IF first = 0 THEN "" ELSE selections[first].topic]
    /\ UNCHANGED <<teams, members, users, calls, clock, reply, selections>>

\* get_topic_counts: the first count query
SelWorkCount(p) ==
    /\ tcalls[p].pc = "work_count"
    /\ tcalls' = [tcalls EXCEPT ![p].pc = "run_count",
                                ![p].work_count = TopicCount("WORK")]
    /\ UNCHANGED <<teams, members, users, calls, clock, reply, selections>>

\* the quota test with >, one team too many
QuotaReachedOffByOne(topic_upper, work_count, run_count) ==
    IF topic_upper = "WORK" THEN work_count > MAX_TEAMS_PER_TOPIC
    ELSE run_count > MAX_TEAMS_PER_TOPIC

\* the quota test on the counts get_topic_counts returned
QuotaReached(topic_upper, work_count, run_count) ==
    IF topic_upper = "WORK" THEN work_count >= MAX_TEAMS_PER_TOPIC
    ELSE run_count >= MAX_TEAMS_PER_TOPIC

\* a comparison that never finds the topics equal
SameTopicNever(existing, existing_topic, topic_upper) == FALSE

\* existing_selection and not existing_selection.topic != topic_upper
SameTopic(existing, existing_topic, topic_upper) ==
    existing # 0 /\ existing_topic = topic_upper

\* get_topic_counts: the second count query; then the quota test and the
\* comparison with the topic loaded with existing_selection
SelRunCount(p) ==
    /\ tcalls[p].pc = "run_count"
    /\ LET run_count == TopicCount("RUN")
       IN IF QuotaReached(tcalls[p].topic_upper, tcalls[p].work_count, run_count)
          THEN TopicReturn(p, "TopicQuotaExceeded")
          ELSE IF SameTopic(tcalls[p].existing, tcalls[p].existing_topic,
                            tcalls[p].topic_upper)
          THEN TopicReturn(p, "AlreadySelected")
          ELSE tcalls' = [tcalls EXCEPT ![p].pc = "commit",
                                        ![p].run_count = run_count]
    /\ UNCHANGED <<teams, members, users, calls, clock, reply, selections>>

\* the update of existing_selection or the insert of new_selection; db.commit()
SelCommit(p) ==
    /\ tcalls[p].pc = "commit"
    /\ clock <= MaxClock
    /\ IF tcalls[p].existing # 0
       THEN /\ selections' = [selections EXCEPT
                   ![tcalls[p].existing].topic = tcalls[p].topic_upper,
                   ![tcalls[p].existing].updated_at = clock]
            /\ TopicReturn(p, "Changed")
       ELSE /\ selections' = Append(selections,
                   NewSelection(tcalls[p].team_id, tcalls[p].team_name,
                                tcalls[p].topic_upper, tcalls[p].creator_id))
            /\ TopicReturn(p, "Selected")
    /\ clock' = clock + 1
    /\ UNCHANGED <<teams, members, users, calls, reply>>

\* ---------------------------------------------------------- specification
\* Concurrent admissions: every process makes one add_member_to_team call,
\* statement by statement, while team row 1 may be deleted by its creator, by
\* staff or from the admin surface.
AddMember ==
    \E p \in Procs :
        \/ \E team_name \in NameSet, user_id \in Targets :
              /\ calls[p].result = "none"
              /\ AddFindTeam(p, team_name, user_id)
        \/ AddGetUserInfo(p)
        \/ AddExistingMember(p)
        \/ AddCurrentMembers(p)
        \/ AddTierCheck(p)
        \/ AddInsert(p)

DeleteTeam == \E user_id \in Actors, is_staff \in BOOLEAN :
                  delete_team(TeamNames[1], user_id, is_staff)

AdminDeleteTeam == admin_delete_team(1)

Next ==
    \/ AddMember
    \/ DeleteTeam
    \/ AdminDeleteTeam

Spec == Init /\ [][Next]_vars

\* Sequential calls: one caller, every operation runs to its return before the
\* next one starts; the admin surface acts between calls.
Quiet == \A p \in Procs : calls[p].pc = "idle"

SeqAddMember ==
    \/ \E team_name \in NameSet, user_id \in Targets :
          AddFindTeam(1, team_name, user_id)
    \/ AddGetUserInfo(1)
    \/ AddExistingMember(1)
    \/ AddCurrentMembers(1)
    \/ AddTierCheck(1)
    \/ AddInsert(1)

SeqCreateTeam ==
    /\ Quiet
    /\ \E team_name \in NameSet, creator_id \in Actors :
          create_team(team_name, creator_id)

SeqDeleteTeam ==
    /\ Quiet
    /\ \E team_name \in NameSet, user_id \in Actors, is_staff \in BOOLEAN :
          delete_team(team_name, user_id, is_staff)

\* whom remove_member_from_team is called for: also the creator of team row 1
RosterTargets == Targets \cup {SeedCreator(1)}

SeqRemoveMember ==
    /\ Quiet
    /\ \E team_name \in NameSet, target \in RosterTargets, user_id \in Actors,
          is_staff \in BOOLEAN :
          remove_member_from_team(team_name, target, user_id, is_staff)

SeqAdminDeleteTeam ==
    /\ Quiet
    /\ \E team_id \in TeamIds : admin_delete_team(team_id)

\* Admissions one after the other, with teams deleted in between.
NextSeq ==
    \/ SeqAddMember
    \/ SeqDeleteTeam
    \/ SeqAdminDeleteTeam

\* all names created; row 1 is full, row 2 holds 4 rows, row 3 holds 3
InitSeq ==
    Store(Len(TeamNames), [i \in 1..Len(TeamNames) |-> TEAM_CEILING + 1 - i],
          Registered)

SpecSeq == InitSeq /\ [][NextSeq]_vars

\* The life of a team name: created, deleted by its creator, by staff or from
\* the admin surface, created again.
NextLifecycle ==
    \/ SeqCreateTeam
    \/ SeqDeleteTeam
    \/ SeqAdminDeleteTeam

\* the first n names created, each with one seeded row
InitLifecycle ==
    \E n \in 0..Len(TeamNames) : Store(n, [i \in 1..n |-> 1], Registered)

SpecLifecycle == InitLifecycle /\ [][NextLifecycle]_vars

\* Admissions one after the other while the admin surface edits and removes
\* directory entries, also between two statements of a call.
AdminEditUser == \E position \in DbPositions : admin_edit_user(1, position)

AdminDeleteUser == admin_delete_user(1)

NextDirectory ==
    \/ SeqAddMember
    \/ AdminEditUser
    \/ AdminDeleteUser

SpecDirectory == InitSeq /\ [][NextDirectory]_vars

\* Concurrent topic selections: the creators of three teams select while the
\* earlier teams hold their selections.
TopicCallers == {1, MAX_TEAMS_PER_TOPIC, MAX_TEAMS_PER_TOPIC + 1}

\* who selects: the creators of these teams and a member of the last of them
TopicActors == {SeedCreator(j) : j \in TopicCallers} \cup {1}

SelectTopic ==
    \E p \in Procs :
        \/ \E i \in TopicCallers, topic \in TopicInputs,
              creator_id \in TopicActors, now \in WallClock :
              /\ tcalls[p].result = "none"
              /\ SelFindTeam(p, AllNames[i], topic, creator_id, now)
        \/ SelExistingSelection(p)
        \/ SelWorkCount(p)
        \/ SelRunCount(p)
        \/ SelCommit(p)

\* team row 1 deleted by its creator or by staff
TopicDeleteTeam ==
    \E is_staff \in BOOLEAN : delete_team(AllNames[1], SeedCreator(1), is_staff)

NextTopic ==
    \/ SelectTopic
    \/ TopicDeleteTeam

\* every name created, one team with a member; the first w teams selected
\* WORK, the last one RUN
InitTopic ==
    \E w \in (MAX_TEAMS_PER_TOPIC - 1)..MAX_TEAMS_PER_TOPIC :
        /\ teams = [i \in 1..Len(AllNames) |->
                      [name |-> AllNames[i], is_active |-> TRUE,
                       creator_id |-> SeedCreator(i), created_at |-> 0]]
        /\ members = SetToBag({MemberRow(MAX_TEAMS_PER_TOPIC + 1, 1,
                                          position_mapping(SeedPosition(1)))})
        /\ users = [u \in UserIds |->
                      IF u = 1
                      THEN [is_active |-> TRUE, position |-> SeedPosition(1)]
                      ELSE [is_active |-> u \in Creators, position |-> NoPosition]]
        /\ calls = [p \in Procs |-> IdleCall]
        /\ clock = 1
        /\ reply = NoReply
        /\ selections = [i \in 1..(w + 1) |->
               [team_id |-> IF i <= w THEN i ELSE Len(AllNames),
                team_name |-> AllNames[IF i <= w THEN i ELSE Len(AllNames)],
                topic |-> IF i <= w THEN "WORK" ELSE "RUN",
                creator_id |-> SeedCreator(IF i <= w THEN i ELSE Len(AllNames)),
                is_active |-> TRUE, created_at |-> 0, updated_at |-> 0]]
        /\ tcalls = [p \in Procs |-> IdleTopicCall]

SpecTopic == InitTopic /\ [][NextTopic]_vars

\* Topic selections one after the other: one caller, every call runs to its
\* return before the next one starts.
SeqSelectTopic ==
    \/ \E i \in TopicCallers, topic \in TopicInputs,
          creator_id \in TopicActors, now \in WallClock :
          SelFindTeam(1, AllNames[i], topic, creator_id, now)
    \/ SelExistingSelection(1)
    \/ SelWorkCount(1)
    \/ SelRunCount(1)
    \/ SelCommit(1)

\* team row 1 deleted by its creator or by staff, between two calls
SeqTopicDeleteTeam ==
    /\ \A p \in Procs : tcalls[p].pc = "idle"
    /\ TopicDeleteTeam

NextTopicSeq ==
    \/ SeqSelectTopic
    \/ SeqTopicDeleteTeam

SpecTopicSeq == InitTopic /\ [][NextTopicSeq]_vars

\* The life of team names at the global ceiling: all but one or all of the
\* allowed teams exist; a first, a last and a further name are created and
\* deleted.
CapacityCalls ==
    {CapacityNames[1], CapacityNames[MAX_TEAMS_5 + MAX_TEAMS_4],
     CapacityNames[MAX_TEAMS_5 + MAX_TEAMS_4 + 1]}

CapCreateTeam ==
    \E team_name \in CapacityCalls, creator_id \in Actors :
        create_team(team_name, creator_id)

CapDeleteTeam ==
    \E team_name \in CapacityCalls, user_id \in Actors, is_staff \in BOOLEAN :
        delete_team(team_name, user_id, is_staff)

NextCapacity ==
    \/ CapCreateTeam
    \/ CapDeleteTeam

InitCapacity ==
    \E n \in (MAX_TEAMS_5 + MAX_TEAMS_4 - 1)..(MAX_TEAMS_5 + MAX_TEAMS_4) :
        /\ teams = [i \in 1..n |->
                      [name |-> CapacityNames[i], is_active |-> TRUE,
                       creator_id |-> SeedCreator(i), created_at |-> 0]]
        /\ members = SetToBag({})
        /\ users = [u \in UserIds |->
                      [is_active |-> u \in Creators, position |-> NoPosition]]
        /\ calls = [p \in Procs |-> IdleCall]
        /\ clock = 1
        /\ reply = NoReply
        /\ selections = <<>>
        /\ tcalls = [p \in Procs |-> IdleTopicCall]

SpecCapacity == InitCapacity /\ [][NextCapacity]_vars

\* Concurrent admissions and deletions: every process makes one call of
\* add_member_to_team or of delete_team, statement by statement.
DeleteCall ==
    \E p \in Procs :
        \/ \E team_name \in NameSet, user_id \in Actors, is_staff \in BOOLEAN :
              /\ calls[p].result = "none"
              /\ DelFindTeam(p, team_name, user_id, is_staff)
        \/ DelMembers(p)
        \/ DelCommit(p)

NextDelete ==
    \/ AddMember
    \/ DeleteCall

SpecDelete == InitSeq /\ [][NextDelete]_vars

\* Removals and deletions one after the other. Team row 1 holds
\* one or two rows and not its creator's; team row 2 was created by a
\* participant who was then admitted to it; team row 3 holds three rows.
NextRoster ==
    \/ SeqDeleteTeam
    \/ SeqRemoveMember

InitRoster ==
    \E first \in 1..2 :
        /\ teams = [i \in 1..Len(TeamNames) |->
                      [name |-> TeamNames[i], is_active |-> TRUE,
                       creator_id |-> IF i = 2 THEN 1 ELSE SeedCreator(i),
                       created_at |-> 0]]
        /\ members = SetToBag(
               SeedRows([i \in 1..Len(TeamNames) |->
                            IF i = 1 THEN first ELSE IF i = 2 THEN 1 ELSE 3])
               \cup {MemberRow(2, 1, position_mapping(SeedPosition(1)))})
        /\ users = [u \in UserIds |->
                      IF u \in FreeUsers THEN Registered[u]
                      ELSE IF u \in SeedUsers
                      THEN [is_active |-> TRUE, position |-> SeedPosition(u % 10)]
                      ELSE [is_active |-> FALSE, position |-> NoPosition]]
        /\ calls = [p \in Procs |-> IdleCall]
        /\ clock = 1
        /\ reply = NoReply
        /\ selections = <<>>
        /\ tcalls = [p \in Procs |-> IdleTopicCall]

SpecRoster == InitRoster /\ [][NextRoster]_vars

\* Round trips of a name: team row 1 is deleted by its creator or by staff
\* and created again, and admissions follow, one call after the other.
RtCreateTeam ==
    /\ Quiet
    /\ \E creator_id \in Actors : create_team(TeamNames[1], creator_id)

RtDeleteTeam ==
    /\ Quiet
    /\ \E user_id \in Actors, is_staff \in BOOLEAN :
          delete_team(TeamNames[1], user_id, is_staff)

NextRoundTrip ==
    \/ SeqAddMember
    \/ RtCreateTeam
    \/ RtDeleteTeam

\* all names created; team row 2 holds four seeded rows, the others one
InitRoundTrip ==
    Store(Len(TeamNames),
          [i \in 1..Len(TeamNames) |-> IF i = 2 THEN TIER_THRESHOLD ELSE 1],
          Registered)

SpecRoundTrip == InitRoundTrip /\ [][NextRoundTrip]_vars


\* ------------------------------------------------------ errors of the store
\* an except clause that keeps what the flush had written
RollbackKeepingWrites(before, written) == written

\* self.db.rollback() in the except clause: the table as the transaction
\* found it, whatever the flush had written
Rollback(before, written) == before

\* create_team: the commit of the revived or the new row raises
create_team_fails(team_name, creator_id) ==
    /\ CreateOutcome(team_name) \in {"Reactivated", "Created"}
    /\ teams' = Rollback(teams,
          IF CreateOutcome(team_name) = "Reactivated"
          THEN LET i == CHOOSE x \in InactiveTeamNamed(team_name) : TRUE
               IN [teams EXCEPT ![i] = Reactivated(teams[i], creator_id)]
          ELSE Append(teams, NewTeam(team_name, creator_id)))
    /\ Reply("create_team", "InternalFailure")
    /\ UNCHANGED <<members, users, calls, clock, selections, tcalls>>

\* remove_member_from_team: the commit of the deletion raises
remove_member_fails(team_name, target_user_id, user_id, is_staff) ==
    /\ \E i \in ActiveTeamNamed(team_name) :
          LET rows == {r \in RowsOfTeam(i) : r.user_id = target_user_id}
          IN /\ Authorized(teams[i], user_id, is_staff)
             /\ rows # {}
             /\ ~(target_user_id = user_id /\ ~is_staff)
             /\ ~(~is_staff /\ BelowMinimum(MemberCount(i)))
             /\ \E r \in rows :
                   members' = Rollback(members, members (-) SetToBag({r}))
    /\ Reply("remove_member", "InternalFailure")
    /\ UNCHANGED <<teams, users, calls, clock, selections, tcalls>>

\* add_member_to_team: the commit of the new row raises
AddInsertFails(p) ==
    /\ calls[p].pc = "insert"
    /\ members' = Rollback(members,
          members (+) SetToBag({MemberRow(calls[p].team_id, calls[p].user_id,
                                   position_mapping(calls[p].db_position))}))
    /\ Return(p, "InternalFailure")
    /\ UNCHANGED <<teams, users, clock, reply, selections, tcalls>>

\* delete_team: the commit raises after the flush has deleted some of the
\* loaded rows and has or has not updated the team row
DelCommitFails(p) ==
    /\ calls[p].pc = "del_commit"
    /\ \E deleted \in SubBag(calls[p].loaded), updated \in BOOLEAN :
          /\ members' = Rollback(members, members (-) deleted)
          /\ teams' = Rollback(teams,
                [teams EXCEPT ![calls[p].team_id].is_active = ~updated])
    /\ Return(p, "InternalFailure")
    /\ UNCHANGED <<users, clock, reply, selections, tcalls>>

\* select_topic: the commit of the update or of the new row raises
SelCommitFails(p) ==
    /\ tcalls[p].pc = "commit"
    /\ selections' = Rollback(selections,
          IF tcalls[p].existing # 0
          THEN [selections EXCEPT
                   ![tcalls[p].existing].topic = tcalls[p].topic_upper,
                   ![tcalls[p].existing].updated_at = clock]
          ELSE Append(selections,
                   NewSelection(tcalls[p].team_id, tcalls[p].team_name,
                                tcalls[p].topic_upper, tcalls[p].creator_id)))
    /\ TopicReturn(p, "InternalFailure")
    /\ UNCHANGED <<teams, members, users, calls, clock, reply>>

\* The five operations one after the other, each commit succeeding or
\* raising.
AllQuiet == Quiet /\ \A p \in Procs : tcalls[p].pc = "idle"

FaultAddMember ==
    \/ \E user_id \in Targets :
          /\ AllQuiet
          /\ AddFindTeam(1, TeamNames[3], user_id)
    \/ AddGetUserInfo(1)
    \/ AddExistingMember(1)
    \/ AddCurrentMembers(1)
    \/ AddTierCheck(1)
    \/ AddInsert(1)
    \/ AddInsertFails(1)

FaultDeleteTeam ==
    \/ \E user_id \in Actors :
          /\ AllQuiet
          /\ DelFindTeam(1, TeamNames[1], user_id, FALSE)
    \/ DelMembers(1)
    \/ DelCommit(1)
    \/ DelCommitFails(1)

FaultCreateTeam ==
    /\ AllQuiet
    /\ \E creator_id \in Actors :
          \/ create_team(TeamNames[1], creator_id)
          \/ create_team_fails(TeamNames[1], creator_id)

FaultRemoveMember ==
    /\ AllQuiet
    /\ \E target \in Targets :
          \/ remove_member_from_team(TeamNames[3], target, SeedCreator(3),
                                     FALSE)
          \/ remove_member_fails(TeamNames[3], target, SeedCreator(3),
                                 FALSE)

FaultSelectTopic ==
    \/ \E topic \in TOPICS, now \in WallClock :
          /\ AllQuiet
          /\ SelFindTeam(1, TeamNames[2], topic, SeedCreator(2), now)
    \/ SelExistingSelection(1)
    \/ SelWorkCount(1)
    \/ SelRunCount(1)
    \/ SelCommit(1)
    \/ SelCommitFails(1)

NextFaults ==
    \/ FaultAddMember
    \/ FaultDeleteTeam
    \/ FaultCreateTeam
    \/ FaultRemoveMember
    \/ FaultSelectTopic

SpecFaults == InitSeq /\ [][NextFaults]_vars


\* create_team: the commit of the new row succeeds and db.refresh(new_team),
\* a read inside the same try block, raises; the rollback finds nothing to undo
create_team_refresh_fails(team_name, creator_id) ==
    /\ clock <= MaxClock
    /\ CreateOutcome(team_name) = "Created"
    /\ LET committed == Append(teams, NewTeam(team_name, creator_id))
       IN teams' = Rollback(committed, committed)
    /\ clock' = clock + 1
    /\ Reply("create_team", "InternalFailure")
    /\ UNCHANGED <<members, users, calls, selections, tcalls>>

\* The five operations one after the other, each commit succeeding or
\* raising, and the read after the commit of a new team raising as well.
FaultRefresh ==
    /\ AllQuiet
    /\ \E creator_id \in Actors :
          create_team_refresh_fails(AllNames[Len(TeamNames) + 1], creator_id)

NextRefresh ==
    \/ NextFaults
    \/ FaultRefresh

SpecRefresh == InitSeq /\ [][NextRefresh]_vars

\* Concurrent calls of the five operations: every process makes one call of
\* add_member_to_team, delete_team or select_topic, statement by statement,
\* while create_team and remove_member_from_team calls run in between. A
\* request that has started is served to its end: each process keeps taking
\* its next statement.
InFlight == Cardinality({p \in Procs : tcalls[p].pc # "idle"})

\* a call that will stamp a row starts while timestamps remain
ClockLeft == clock + InFlight <= MaxClock

LiveStart(p) ==
    /\ calls[p].pc = "idle" /\ calls[p].result = "none"
    /\ tcalls[p].pc = "idle" /\ tcalls[p].result = "none"
    /\ \/ \E team_name \in {TeamNames[1], TeamNames[3]} :
             AddFindTeam(p, team_name, p)
       \/ DelFindTeam(p, TeamNames[1], SeedCreator(1), FALSE)
       \/ \E topic \in TOPICS :
             /\ ClockLeft
             /\ SelFindTeam(p, TeamNames[1], topic, SeedCreator(1),
                            START_HOUR * 60 + START_MINUTE)

LiveStep(p) ==
    \/ AddGetUserInfo(p)
    \/ AddExistingMember(p)
    \/ AddCurrentMembers(p)
    \/ AddTierCheck(p)
    \/ AddInsert(p)
    \/ DelMembers(p)
    \/ DelCommit(p)
    \/ SelExistingSelection(p)
    \/ SelWorkCount(p)
    \/ SelRunCount(p)
    \/ SelCommit(p)

LiveCreateTeam ==
    /\ ClockLeft
    /\ create_team(TeamNames[1], 1)

LiveRemoveMember ==
    \E target \in FreeUsers :
        remove_member_from_team(TeamNames[3], target, SeedCreator(3), FALSE)

NextLive ==
    \/ \E p \in Procs : LiveStart(p)
    \/ \E p \in Procs : LiveStep(p)
    \/ LiveCreateTeam
    \/ LiveRemoveMember

SpecLive ==
    /\ InitSeq
    /\ [][NextLive]_vars
    /\ \A p \in Procs : WF_vars(LiveStep(p))


\* get_all_teams: limit_info, the active teams by their number of rows
get_all_teams ==
    [team_count_5 |-> Cardinality({i \in ActiveTeams : MemberCount(i) >= 5}),
     team_count_4 |-> Cardinality({i \in ActiveTeams :
                                      MemberCount(i) < 5 /\ MemberCount(i) >= 4}),
     max_teams_5 |-> MAX_TEAMS_5,
     max_teams_4 |-> MAX_TEAMS_4]

\* get_all_teams: team_type of one active team, from member_count = len(members)
get_all_teams_team_type(team_id) ==
    LET member_count == MemberCount(team_id)
    IN IF member_count >= 5 THEN "team of 5"
       ELSE IF member_count >= 4 THEN "team of 4"
       ELSE "forming"

\* get_team_info: team_type, from total_members = len(members) + 1
get_team_info_team_type(team_id) ==
    LET total_members == MemberCount(team_id) + 1
    IN IF total_members >= 5 THEN "team of 5"
       ELSE IF total_members >= 4 THEN "team of 4"
       ELSE "forming"

\* Admissions one after the other to teams that are forming: row 1 is full,
\* the other rows hold 2 rows each, so that both queries call them forming.
InitReport ==
    Store(Len(TeamNames),
          [i \in 1..Len(TeamNames) |-> IF i = 1 THEN TEAM_CEILING ELSE 2],
          Registered)

SpecReport == InitReport /\ [][NextSeq]_vars

\* Admissions one after the other with the four-person tier used up: rows 1
\* and 2 hold 4 rows each, row 3 holds 3.
InitTier ==
    Store(Len(TeamNames),
          [i \in 1..Len(TeamNames) |-> IF i <= MAX_TEAMS_4 THEN 4 ELSE 3],
          Registered)

SpecTier == InitTier /\ [][NextSeq]_vars


\* Admissions one after the other of participants of any of the four
\* categories: the rows of team row 3 are all of one category, as are the
\* participants that hold them; row 1 is full, row 2 holds 2 rows.
NextCategories ==
    \/ SeqAddMember
    \/ SeqDeleteTeam

InitCategories ==
    \E free \in [FreeUsers -> [is_active : {TRUE}, position : POSITIONS]] :
        /\ teams = [i \in 1..Len(TeamNames) |->
                      [name |-> TeamNames[i], is_active |-> TRUE,
                       creator_id |-> SeedCreator(i), created_at |-> 0]]
        /\ members = SetToBag(
               {MemberRow(r.team_id, r.user_id,
                          IF r.team_id = 3 THEN position_mapping("Backend")
                          ELSE r.position) :
                   r \in SeedRows([i \in 1..Len(TeamNames) |->
                            IF i = 1 THEN TEAM_CEILING ELSE i])})
        /\ users = [u \in UserIds |->
                      IF u \in FreeUsers THEN free[u]
                      ELSE IF u \in SeedUsers
                      THEN [is_active |-> TRUE,
                            position |-> IF u \in {SeedMember(3, k) : k \in 1..TEAM_CEILING}
                                         THEN "Backend"
                                         ELSE SeedPosition(u % 10)]
                      ELSE [is_active |-> FALSE, position |-> NoPosition]]
        /\ calls = [p \in Procs |-> IdleCall]
        /\ clock = 1
        /\ reply = NoReply
        /\ selections = <<>>
        /\ tcalls = [p \in Procs |-> IdleTopicCall]

SpecCategories == InitCategories /\ [][NextCategories]_vars


\* Admissions one after the other; between two calls teams are deleted and
\* the admin surface edits and removes the directory entry of participant 1.
NextOrder ==
    \/ SeqAddMember
    \/ SeqDeleteTeam
    \/ Quiet /\ AdminEditUser
    \/ Quiet /\ AdminDeleteUser

SpecOrder == InitSeq /\ [][NextOrder]_vars


\* ------------------------------------------------- create_team, by statement
\* existing_team = query(Team).filter(name, is_active == True).first()
CrFindTeam(p, team_name, creator_id) ==
    /\ calls[p].pc = "idle"
    /\ IF ActiveTeamNamed(team_name) # {}
       THEN Return(p, "DuplicateActiveName")
       ELSE calls' = [calls EXCEPT
                ![p] = [IdleCall EXCEPT !.pc = "cr_inactive",
                                        !.team_name = team_name,
                                        !.user_id = creator_id]]
    /\ UNCHANGED <<teams, members, users, clock, reply, selections, tcalls>>

\* inactive_team = query(Team).filter(name, is_active == False).first()
CrInactiveTeam(p) ==
    /\ calls[p].pc = "cr_inactive"
    /\ LET found == InactiveTeamNamed(calls[p].team_name)
       IN IF found # {}
          THEN calls' = [calls EXCEPT ![p].pc = "cr_reactivate",
                                      ![p].team_id = CHOOSE i \in found : TRUE]
          ELSE Goto(p, "cr_capacity")
    /\ UNCHANGED <<teams, members, users, clock, reply, selections, tcalls>>

\* the fields of inactive_team assigned; db.commit() issues the UPDATE by id
CrReactivate(p) ==
    /\ calls[p].pc = "cr_reactivate"
    /\ clock <= MaxClock
    /\ teams' = [teams EXCEPT ![calls[p].team_id] =
                    Reactivated(teams[calls[p].team_id], calls[p].user_id)]
    /\ clock' = clock + 1
    /\ Return(p, "Reactivated")
    /\ UNCHANGED <<members, users, reply, selections, tcalls>>

\* active_teams = query(Team).filter(is_active == True).all()
CrCapacity(p) ==
    /\ calls[p].pc = "cr_capacity"
    /\ IF Cardinality(ActiveTeams) >= MAX_TEAMS_5 + MAX_TEAMS_4
       THEN Return(p, "GlobalTeamCapacityExceeded")
       ELSE Goto(p, "cr_insert")
    /\ UNCHANGED <<teams, members, users, clock, reply, selections, tcalls>>

\* db.add(new_team); db.commit(): the INSERT meets the unique index on
\* teams.name, raises when a row of the name exists, and is rolled back
CrInsert(p) ==
    /\ calls[p].pc = "cr_insert"
    /\ clock <= MaxClock
    /\ IF \E i \in TeamIds : teams[i].name = calls[p].team_name
       THEN /\ teams' = Rollback(teams,
                   Append(teams, NewTeam(calls[p].team_name, calls[p].user_id)))
            /\ Return(p, "InternalFailure")
            /\ UNCHANGED clock
       ELSE /\ teams' = Append(teams, NewTeam(calls[p].team_name, calls[p].user_id))
            /\ clock' = clock + 1
            /\ Return(p, "Created")
    /\ UNCHANGED <<members, users, reply, selections, tcalls>>

\* Concurrent creations of one name: every process makes one create_team call
\* for the first name, process p on behalf of participant p, statement by
\* statement. The name has no row, an inactive row or an active row.
CreateCall ==
    \E p \in Procs :
        \/ /\ calls[p].result = "none"
           /\ CrFindTeam(p, TeamNames[1], p)
        \/ CrInactiveTeam(p)
        \/ CrReactivate(p)
        \/ CrCapacity(p)
        \/ CrInsert(p)

NextCreate == CreateCall

InitCreate ==
    \E first \in 1..2, n \in 1..Len(CapacityNames), active \in BOOLEAN :
        /\ teams = [i \in 1..(n + 1 - first) |->
                      [name |-> CapacityNames[i + first - 1],
                       is_active |-> IF i + first - 1 = 1 THEN active ELSE TRUE,
                       creator_id |-> SeedCreator(i + first - 1),
                       created_at |-> 0]]
        /\ members = EmptyBag
        /\ users = [u \in UserIds |->
                      IF u \in FreeUsers THEN Registered[u]
                      ELSE [is_active |-> FALSE, position |-> NoPosition]]
        /\ calls = [p \in Procs |-> IdleCall]
        /\ clock = 1
        /\ reply = NoReply
        /\ selections = <<>>
        /\ tcalls = [p \in Procs |-> IdleTopicCall]

SpecCreate == InitCreate /\ [][NextCreate]_vars


\* ------------------------------------- remove_member_from_team, by statement
\* team = query(Team).filter(name, is_active).first(); the creator-or-staff test
RmFindTeam(p, team_name, target_user_id, user_id, is_staff) ==
    /\ calls[p].pc = "idle"
    /\ LET found == ActiveTeamNamed(team_name)
       IN IF found = {}
          THEN Return(p, "TeamNotFound")
          ELSE LET i == CHOOSE x \in found : TRUE
               IN IF ~Authorized(teams[i], user_id, is_staff)
                  THEN Return(p, "NotAuthorized")
                  ELSE calls' = [calls EXCEPT
                           ![p] = [IdleCall EXCEPT
                                     !.pc = "rm_member", !.team_name = team_name,
                                     !.user_id = target_user_id,
                                     !.caller_id = user_id, !.team_id = i]]
    /\ UNCHANGED <<teams, members, users, clock, reply, selections, tcalls>>

\* member = query(TeamMember).filter(team_id, user_id).first(); the test
\* target_user_id == user_id of a caller who is not staff
RmFindMember(p, is_staff) ==
    /\ calls[p].pc = "rm_member"
    /\ LET rows == {r \in RowsOfTeam(calls[p].team_id) :
                       r.user_id = calls[p].user_id}
       IN IF rows = {}
          THEN Return(p, "NotAMember")
          ELSE IF calls[p].user_id = calls[p].caller_id /\ ~is_staff
          THEN Return(p, "CannotRemoveSelf")
          ELSE \E r \in rows :
                  calls' = [calls EXCEPT ![p].pc = "rm_count",
                                         ![p].loaded = SetToBag({r})]
    /\ UNCHANGED <<teams, members, users, clock, reply, selections, tcalls>>

\* total_members = query(TeamMember).filter(team_id).count(), for a caller who
\* is not staff
RmCount(p, is_staff) ==
    /\ calls[p].pc = "rm_count"
    /\ IF ~is_staff /\ BelowMinimum(MemberCount(calls[p].team_id))
       THEN Return(p, "MinimumHeadcount")
       ELSE Goto(p, "rm_commit")
    /\ UNCHANGED <<teams, members, users, clock, reply, selections, tcalls>>

\* db.delete(member); db.commit(): the DELETE by id; a row that is gone by
\* then matches nothing, which the ORM reports as a warning
RmCommit(p) ==
    /\ calls[p].pc = "rm_commit"
    /\ members' = members (-) calls[p].loaded
    /\ Return(p, "Success")
    /\ UNCHANGED <<teams, users, clock, reply, selections, tcalls>>

\* Concurrent removals by callers who are not staff: every process makes one
\* remove_member_from_team call, statement by statement, for one of the two
\* first members of team row 1 or for a free participant.
RemoveTargets == {SeedMember(1, 1), SeedMember(1, 2)} \cup FreeUsers

RemoveCall ==
    \E p \in Procs :
        \/ \E team_name \in NameSet, target \in RemoveTargets, user_id \in Actors :
              /\ calls[p].result = "none"
              /\ RmFindTeam(p, team_name, target, user_id, FALSE)
        \/ RmFindMember(p, FALSE)
        \/ RmCount(p, FALSE)
        \/ RmCommit(p)

NextRemove == RemoveCall

SpecRemove == InitRoster /\ [][NextRemove]_vars

\* ------------------------------------------------------------------ claims

\* C1: in every reachable state, under every interleaving of concurrent
\* add_member calls, no team has more than 5 membership rows.
C1_TeamCeiling == \A i \in TeamIds : MemberCount(i) <= TEAM_CEILING

\* C2: in every reachable state, under every interleaving of concurrent
\* add_member calls for the same participant, each participant id is
\* referenced by at most one membership row system-wide.
C2_OneMembershipPerParticipant == \A u \in UserIds : UserRowCount(u) <= 1

\* C5: no add_member call commits a membership row for a team that is
\* inactive at the moment of the commit (a team deleted between the call's
\* team lookup and its insert does not receive the member).
C5_NoAdmissionToInactiveTeam ==
    [][\A p \in Procs :
          (calls[p].pc = "insert" /\ calls'[p].pc = "idle")
              => teams[calls[p].team_id].is_active]_vars

\* a call of process p returns in this step, having found its team
Returns(p) == calls[p].pc # "idle" /\ calls'[p].pc = "idle"

\* an eligible target: registered, with a recognized category, in no team
Eligible(u) ==
    /\ users[u].is_active
    /\ users[u].position \in POSITIONS
    /\ UserRowCount(u) = 0

\* C4: at most one Team row per name is active, and create_team on a name
\* whose only row is inactive revives that row (same id, active, creator and
\* creation time overwritten) and inserts no second row.
C4_OneActiveRowPerName ==
    \A name \in NameSet : Cardinality(ActiveTeamNamed(name)) <= 1

C4_ReactivatesInPlace ==
    \A name \in NameSet, creator_id \in Actors :
        \A i \in TeamIds :
            ( /\ create_team(name, creator_id)
              /\ ActiveTeamNamed(name) = {}
              /\ InactiveTeamNamed(name) = {i} )
            => /\ Len(teams') = Len(teams)
               /\ teams'[i] = [name |-> name, is_active |-> TRUE,
                               creator_id |-> creator_id, created_at |-> clock]
               /\ \A j \in TeamIds \ {i} : teams'[j] = teams[j]
               /\ reply'.result = "Reactivated"

C4_CreateOrReactivate ==
    /\ [](C4_OneActiveRowPerName)
    /\ [][C4_ReactivatesInPlace]_vars

\* a revived row: inactive before, now active under a new creator
C4_Witness ==
    /\ reply = [op |-> "create_team", result |-> "Reactivated"]
    /\ \E i \in TeamIds :
          /\ teams[i].is_active
          /\ teams[i].created_at > 0
          /\ teams[i].creator_id # SeedCreator(i)
          /\ i <= Len(TeamNames) - 1

\* C6: add_member on a team that has 5 membership rows fails with TeamFull
\* for every eligible target, whatever its category, and inserts nothing.
C6_FullTeamRejects ==
    [][\A p \in Procs :
          ( /\ Returns(p)
            /\ MemberCount(calls[p].team_id) >= 5
            /\ Eligible(calls[p].user_id) )
          => (calls'[p].result = "TeamFull" /\ members' = members)]_vars

C6_Witness ==
    \E p \in Procs :
        /\ calls[p].result = "TeamFull"
        /\ \E i \in TeamIds : MemberCount(i) = 5

\* C7: an add_member call that would bring a team from 3 to 4 rows fails with
\* FourPersonTierExhausted, inserting nothing, when MAX_TEAMS_4 other active
\* teams already have at least 4 rows.
C7_TierCheckAtFour ==
    [][\A p \in Procs :
          ( /\ Returns(p)
            /\ Eligible(calls[p].user_id)
            /\ MemberCount(calls[p].team_id) = 3
            /\ TeamCount4(calls[p].team_id) >= MAX_TEAMS_4 )
          => ( /\ calls'[p].result = "FourPersonTierExhausted"
               /\ members' = members )]_vars

\* C8: an add_member call that brings a team from 4 to 5 rows is never
\* rejected with FourPersonTierExhausted.
C8_NoTierCheckAtFive ==
    [][\A p \in Procs :
          (Returns(p) /\ MemberCount(calls[p].team_id) = 4)
          => calls'[p].result # "FourPersonTierExhausted"]_vars

\* C9: add_member fails with AlreadyAssigned, inserting nothing, when the
\* registered target holds a membership in an active team; a target whose
\* only rows belong to inactive teams is not treated as already assigned.
InActiveTeam(u) == \E r \in RowsOfUser(u) : teams[r.team_id].is_active
OnlyInInactiveTeams(u) ==
    /\ RowsOfUser(u) # {}
    /\ \A r \in RowsOfUser(u) : ~teams[r.team_id].is_active

C9_AlreadyAssigned ==
    [][\A p \in Procs :
          Returns(p) =>
            LET u == calls[p].user_id
            IN /\ ( /\ users[u].is_active
                    /\ users[u].position \in POSITIONS
                    /\ InActiveTeam(u) )
                  => ( /\ calls'[p].result = "AlreadyAssigned"
                       /\ members' = members )
               /\ OnlyInInactiveTeams(u)
                  => calls'[p].result # "AlreadyAssigned"]_vars

\* C3: for each topic, the number of teams holding an active selection of it
\* never exceeds MAX_TEAMS_PER_TOPIC, also when select_topic calls of
\* different teams interleave on the last open slot.
TeamsOnTopic(topic) ==
    {selections[i].team_name :
        i \in {j \in SelectionIds :
                  selections[j].topic = topic /\ selections[j].is_active}}

C3_TopicQuota ==
    \A topic \in TOPICS : Cardinality(TeamsOnTopic(topic)) <= MAX_TEAMS_PER_TOPIC

\* C10: every membership row holds one of the four role codes; the row a
\* successful add_member call inserts holds the code the fixed table gives for
\* the category the call read from the target's directory entry; the call
\* fails with UnregisteredParticipant when the entry is missing or inactive
\* and with NoCategoryAssigned when the entry has no category, and inserts
\* nothing in both cases.
RoleCodes == {"BE", "FE", "Designer", "Planner"}

C10_Code(category) ==
    CASE category = "Backend" -> "BE"
      [] category = "Frontend" -> "FE"
      [] category = "Design" -> "Designer"
      [] category = "Planning" -> "Planner"

C10_RowsHoldRoleCodes == \A r \in BagToSet(members) : r.position \in RoleCodes

C10_Admission ==
    \A p \in Procs :
        LET u == calls[p].user_id
        IN /\ (calls[p].pc = "get_user_info" /\ calls'[p].pc = "existing_member")
              => /\ users[u].is_active
                 /\ users[u].position \in POSITIONS
                 /\ calls'[p].db_position = users[u].position
           /\ (Returns(p) /\ calls'[p].result = "Success")
              => /\ calls[p].db_position \in POSITIONS
                 /\ members' = members (+) SetToBag({
                        [team_id |-> calls[p].team_id, user_id |-> u,
                         position |-> C10_Code(calls[p].db_position)]})
           /\ (calls[p].pc = "get_user_info" /\ ~users[u].is_active)
              => /\ calls'[p].pc = "idle"
                 /\ calls'[p].result = "UnregisteredParticipant"
                 /\ members' = members
           /\ ( /\ calls[p].pc = "get_user_info"
                /\ users[u].is_active
                /\ users[u].position = NoPosition )
              => /\ calls'[p].pc = "idle"
                 /\ calls'[p].result = "NoCategoryAssigned"
                 /\ members' = members

C10_PositionFromDirectory ==
    /\ [](C10_RowsHoldRoleCodes)
    /\ [][(calls' # calls) => C10_Admission]_vars

\* a participant admitted as Designer after the directory entry was edited
C10_Witness ==
    /\ calls[1].result = "Success"
    /\ users[1].position = "Design"
    /\ \E r \in RowsOfUser(1) : r.position = "Designer"

\* C11: create_team with a name for which an active team exists fails with
\* DuplicateActiveName and leaves every team row (creator, timestamp, active
\* flag) and every membership row unchanged.
C11_DuplicateNameRejected ==
    [][\A name \in NameSet, creator_id \in Actors :
          ( /\ create_team(name, creator_id)
            /\ \E i \in TeamIds : teams[i].name = name /\ teams[i].is_active )
          => /\ reply' = [op |-> "create_team", result |-> "DuplicateActiveName"]
             /\ teams' = teams
             /\ members' = members]_vars

\* the name of an active team with a member was asked for again
C11_Witness ==
    /\ reply = [op |-> "create_team", result |-> "DuplicateActiveName"]
    /\ \E i \in ActiveTeams : MemberCount(i) >= 1

\* C12: create_team fails with GlobalTeamCapacityExceeded and neither adds nor
\* activates a team row whenever MAX_TEAMS_5 + MAX_TEAMS_4 teams are active
\* and none of them has the requested name.
C12_CapacityRejects ==
    [][\A name \in CapacityCalls, creator_id \in Actors :
          ( /\ create_team(name, creator_id)
            /\ Cardinality({i \in TeamIds : teams[i].is_active})
                  >= MAX_TEAMS_5 + MAX_TEAMS_4
            /\ \A i \in TeamIds : teams[i].name = name => ~teams[i].is_active )
          => /\ reply' = [op |-> "create_team",
                          result |-> "GlobalTeamCapacityExceeded"]
             /\ teams' = teams]_vars

\* C13: a successful delete_team leaves the team inactive with zero
\* membership rows, both at once, also while add_member calls run at the same
\* time.
C13_DeleteLeavesNoRows ==
    [][\A p \in Procs, team_id \in TeamIds :
          ( /\ calls[p].pc = "del_commit"
            /\ calls'[p].pc = "idle"
            /\ calls[p].team_id = team_id )
          => /\ ~teams'[team_id].is_active
             /\ MemberCount(team_id)' = 0]_vars

\* C14: delete_team and remove_member called by an actor who is neither the
\* creator of the named active team nor privileged fail with NotAuthorized
\* and change no team row and no membership row; a privileged call is never
\* refused as NotAuthorized, whoever the actor, and a privileged delete_team
\* of an active team succeeds.
ActiveRowNamed(name, i) == teams[i].name = name /\ teams[i].is_active

C14_Delete ==
    (reply'.op = "delete_team" /\ calls' = calls) =>
    \A name \in NameSet, user_id \in Actors, is_staff \in BOOLEAN, i \in TeamIds :
        (ActiveRowNamed(name, i) /\ delete_team(name, user_id, is_staff))
        => /\ (teams[i].creator_id # user_id /\ ~is_staff)
                 => /\ reply' = [op |-> "delete_team", result |-> "NotAuthorized"]
                    /\ teams' = teams
                    /\ members' = members
           /\ is_staff => reply' = [op |-> "delete_team", result |-> "Success"]

C14_Remove ==
    (reply'.op = "remove_member" /\ calls' = calls) =>
    \A name \in NameSet, target \in RosterTargets, user_id \in Actors,
       is_staff \in BOOLEAN, i \in TeamIds :
        ( /\ ActiveRowNamed(name, i)
          /\ remove_member_from_team(name, target, user_id, is_staff) )
        => /\ (teams[i].creator_id # user_id /\ ~is_staff)
                 => /\ reply' = [op |-> "remove_member", result |-> "NotAuthorized"]
                    /\ teams' = teams
                    /\ members' = members
           /\ is_staff => reply'.result # "NotAuthorized"

C14_CreatorOrPrivileged == [][C14_Delete /\ C14_Remove]_vars

\* a removal was refused for want of authority while the team has members
C14_Witness ==
    /\ reply = [op |-> "remove_member", result |-> "NotAuthorized"]
    /\ \E i \in ActiveTeams : MemberCount(i) >= 2

\* C15: delete_team followed by create_team with the same name yields an
\* active team with zero membership rows whose creator is the actor of
\* create_team, and add_member to it succeeds for an eligible participant who
\* is in no team.
C15_Recreated ==
    (reply'.op = "create_team" /\ calls' = calls) =>
    \A name \in NameSet, creator_id \in Actors, i \in TeamIds :
        ( /\ teams[i].name = name
          /\ ~teams[i].is_active
          /\ create_team(name, creator_id) )
        => /\ teams'[i].is_active
           /\ teams'[i].creator_id = creator_id
           /\ MemberCount(i)' = 0
           /\ Len(teams') = Len(teams)

C15_Addable ==
    \A p \in Procs, i \in TeamIds :
        ( /\ Returns(p)
          /\ calls[p].team_id = i
          /\ teams[i].is_active
          /\ teams[i].created_at > 0
          /\ MemberCount(i) = 0
          /\ Eligible(calls[p].user_id) )
        => /\ calls'[p].result = "Success"
           /\ MemberCount(i)' = 1

C15_RoundTrip == [][C15_Recreated /\ C15_Addable]_vars

\* a team deleted and created again by another actor holds its first member
C15_Witness ==
    /\ calls[1].result = "Success"
    /\ \E i \in ActiveTeams :
          /\ teams[i].created_at > 0
          /\ teams[i].creator_id # SeedCreator(i)
          /\ i <= Len(TeamNames) - 1
          /\ RowsOfTeam(i) = {r \in RowsOfTeam(i) : r.user_id \in FreeUsers}
          /\ MemberCount(i) = 1

\* C16: remove_member by a non-privileged actor whose target is the creator
\* of the named active team fails with CannotRemoveSelf, whether or not the
\* creator holds a membership row in the team.
C16_CreatorNotRemovable ==
    [][(reply'.op = "remove_member" /\ calls' = calls) =>
       \A name \in NameSet, target \in RosterTargets, user_id \in Actors,
          i \in TeamIds :
           ( /\ ActiveRowNamed(name, i)
             /\ teams[i].creator_id = target
             /\ teams[i].creator_id = user_id
             /\ remove_member_from_team(name, target, user_id, FALSE) )
           => /\ reply' = [op |-> "remove_member", result |-> "CannotRemoveSelf"]
              /\ members' = members]_vars

\* C17: a non-privileged remove_member whose target is the only membership
\* row of the team fails with MinimumHeadcount and deletes nothing; every
\* successful non-privileged removal leaves the team with at least one row.
C17_Remove ==
    (reply'.op = "remove_member" /\ calls' = calls) =>
    \A name \in NameSet, target \in RosterTargets, user_id \in Actors,
       i \in TeamIds :
        ( /\ ActiveRowNamed(name, i)
          /\ remove_member_from_team(name, target, user_id, FALSE) )
        => /\ ( /\ teams[i].creator_id = user_id
                /\ target # user_id
                /\ MemberCount(i) = 1
                /\ \E r \in RowsOfTeam(i) : r.user_id = target )
              => /\ reply' = [op |-> "remove_member",
                              result |-> "MinimumHeadcount"]
                 /\ members' = members
           /\ reply'.result = "Success" => MemberCount(i)' >= 1

C17_MinimumHeadcount == [][C17_Remove]_vars

\* the creator was refused the removal of the last member
C17_Witness ==
    /\ reply = [op |-> "remove_member", result |-> "MinimumHeadcount"]
    /\ \E i \in ActiveTeams :
          MemberCount(i) = 1 /\ \A r \in RowsOfTeam(i) : r.user_id # teams[i].creator_id

\* a privileged removal has left an active team without rows
C17_PrivilegedWitness ==
    /\ reply = [op |-> "remove_member", result |-> "Success"]
    /\ \E i \in ActiveTeams : MemberCount(i) = 0

\* C18: every select_topic call made before 15:30 of its day fails with
\* OutsideSelectionWindow and creates or updates no selection, whatever the
\* topic, the team and the actor, also after earlier calls have succeeded.
C18_ClosedBeforeCutoff ==
    [][\A p \in Procs :
          (tcalls[p].pc = "idle" /\ tcalls'[p] # tcalls[p]) =>
          \A i \in TopicCallers, topic \in TopicInputs,
             creator_id \in TopicActors, now \in WallClock :
              (now < 15 * 60 + 30 /\ SelFindTeam(p, AllNames[i], topic, creator_id, now))
              => /\ tcalls'[p].pc = "idle"
                 /\ tcalls'[p].result = "OutsideSelectionWindow"
                 /\ selections' = selections]_vars

\* the last call was refused before the cutoff after an earlier one selected
C18_Witness ==
    /\ tcalls[1].result = "OutsideSelectionWindow"
    /\ \E i \in SelectionIds : selections[i].created_at > 0

\* C19: inside the window and with a valid topic, select_topic fails with
\* TeamNotFound when no active team has the name and with NotAuthorized when
\* the actor is not the creator of that team (a member of it included),
\* changing no selection; only a call of the team's creator writes.
C19_Lookup ==
    \A p \in Procs :
        (tcalls[p].pc = "idle" /\ tcalls'[p] # tcalls[p]) =>
        \A i \in TopicCallers, topic \in {"WORK", "run"},
           creator_id \in TopicActors, now \in WallClock :
            (now >= 15 * 60 + 30 /\ SelFindTeam(p, AllNames[i], topic, creator_id, now))
            => /\ (\A j \in TeamIds : ~ActiveRowNamed(AllNames[i], j))
                     => /\ tcalls'[p].pc = "idle"
                        /\ tcalls'[p].result = "TeamNotFound"
               /\ (\E j \in TeamIds : /\ ActiveRowNamed(AllNames[i], j)
                                      /\ teams[j].creator_id # creator_id)
                     => /\ tcalls'[p].pc = "idle"
                        /\ tcalls'[p].result = "NotAuthorized"
               /\ selections' = selections

C19_Write ==
    \A p \in Procs :
        (selections' # selections /\ tcalls'[p] # tcalls[p])
        => /\ tcalls[p].team_id \in TeamIds
           /\ teams[tcalls[p].team_id].name = tcalls[p].team_name
           /\ teams[tcalls[p].team_id].creator_id = tcalls[p].creator_id

C19_CreatorOnly == [][C19_Lookup /\ C19_Write]_vars

\* a member of the team was refused, its creator has selected
C19_Witness ==
    \E p \in Procs :
        /\ tcalls[p].result = "NotAuthorized"
        /\ \E i \in SelectionIds :
              /\ selections[i].created_at > 0
              /\ \E r \in RowsOfTeam(selections[i].team_id) : r.user_id = 1

\* C20: inside the window, a select_topic call of the team's creator for a
\* topic with MAX_TEAMS_PER_TOPIC active selections fails with
\* TopicQuotaExceeded; for a topic with remaining quota that the team does not
\* hold yet it succeeds, and get_topic_counts reports for each topic the
\* number of active selections with it and whether that is below the quota.
SelectionCount(topic) ==
    Cardinality({i \in 1..Len(selections) :
                    selections[i].topic = topic /\ selections[i].is_active})

C20_Counts ==
    /\ get_topic_counts.work_count = SelectionCount("WORK")
    /\ get_topic_counts.run_count = SelectionCount("RUN")
    /\ get_topic_counts.work_available = (SelectionCount("WORK") < MAX_TEAMS_PER_TOPIC)
    /\ get_topic_counts.run_available = (SelectionCount("RUN") < MAX_TEAMS_PER_TOPIC)

C20_Call ==
    \A p \in Procs :
        (tcalls[p].pc \notin {"idle", "commit"} /\ tcalls'[p].pc \in {"idle", "commit"})
        => LET topic == tcalls[p].topic_upper
               held == \E i \in SelectionIds :
                          /\ selections[i].team_name = tcalls[p].team_name
                          /\ selections[i].is_active
                          /\ selections[i].topic = topic
           IN /\ SelectionCount(topic) >= MAX_TEAMS_PER_TOPIC
                    => /\ tcalls'[p].pc = "idle"
                       /\ tcalls'[p].result = "TopicQuotaExceeded"
                       /\ selections' = selections
              /\ (SelectionCount(topic) < MAX_TEAMS_PER_TOPIC /\ ~held)
                    => tcalls'[p].pc = "commit"

C20_Commit ==
    \A p \in Procs :
        (tcalls[p].pc = "commit" /\ tcalls'[p].pc = "idle")
        => /\ tcalls'[p].result \in {"Selected", "Changed"}
           /\ \E i \in 1..Len(selections') :
                 /\ selections'[i].team_name = tcalls[p].team_name
                 /\ selections'[i].topic = tcalls[p].topic_upper
                 /\ selections'[i].is_active

C20_QuotaAndCounts == [](C20_Counts) /\ [][C20_Call /\ C20_Commit]_vars

\* a call filled the last slot and the next call for the topic was refused
C20_Witness ==
    /\ tcalls[1].result = "TopicQuotaExceeded"
    /\ ~get_topic_counts.work_available
    /\ \E i \in SelectionIds :
          selections[i].topic = "WORK" /\ selections[i].created_at > 0

\* C21: in every reachable state at most one active selection exists per team
\* name.
C21_OneSelectionPerTeam ==
    \A i \in 1..Len(AllNames) :
        Cardinality({j \in 1..Len(selections) :
                        /\ selections[j].team_name = AllNames[i]
                        /\ selections[j].is_active}) <= 1

\* a team's active selection of a topic
Holds(team_name, topic) ==
    \E j \in 1..Len(selections) :
        /\ selections[j].team_name = team_name
        /\ selections[j].is_active
        /\ selections[j].topic = topic

\* C22: select_topic by a team's creator with the topic the team has already
\* selected fails with AlreadySelected and with no other failure, also when
\* that topic has MAX_TEAMS_PER_TOPIC active selections.
C22_AlreadySelected ==
    [][\A p \in Procs :
          ( /\ tcalls[p].pc \notin {"idle", "commit"}
            /\ tcalls'[p].pc \in {"idle", "commit"}
            /\ Holds(tcalls[p].team_name, tcalls[p].topic_upper) )
          => /\ tcalls'[p].pc = "idle"
             /\ tcalls'[p].result = "AlreadySelected"]_vars

\* C23: a select_topic call for a team with the topic the preceding call for
\* that team selected returns a failure and leaves every selection (topic,
\* updated timestamp, creator, active flag) as it was.
C23_SecondCallChangesNothing ==
    [][\A p \in Procs :
          ( /\ tcalls[p].pc \notin {"idle", "commit"}
            /\ tcalls'[p].pc \in {"idle", "commit"}
            /\ Holds(tcalls[p].team_name, tcalls[p].topic_upper) )
          => /\ tcalls'[p].pc = "idle"
             /\ tcalls'[p].result \in {"AlreadySelected", "TopicQuotaExceeded"}
             /\ selections' = selections]_vars

\* the second call was refused; the row shows the first call's write
C23_Witness ==
    /\ tcalls[1].result = "AlreadySelected"
    /\ \E j \in SelectionIds : selections[j].updated_at > 0

\* C24: a successful delete_team marks the team's selection inactive, so that
\* it no longer counts toward its topic's quota and a team created later
\* under the name starts without a selection.
C24_DeleteReleasesSelection ==
    [][\A i \in TeamIds :
          ( /\ reply' = [op |-> "delete_team", result |-> "Success"]
            /\ teams[i].is_active
            /\ ~teams'[i].is_active )
          => \A j \in 1..Len(selections') :
                selections'[j].team_name = teams[i].name
                => ~selections'[j].is_active]_vars

\* C25: when the store raises at the commit of create_team, delete_team,
\* add_member_to_team, remove_member_from_team or select_topic, the call
\* returns the generic failure at once and teams, memberships and selections
\* are as they were before the call's writes: in particular delete_team
\* leaves no membership deleted while the team is active.
C25_FailureLeavesStore ==
    [][( \/ reply'.result = "InternalFailure" /\ calls' = calls
                                             /\ tcalls' = tcalls
         \/ \E p \in Procs : /\ calls'[p] # calls[p]
                             /\ calls'[p].result = "InternalFailure"
         \/ \E p \in Procs : /\ tcalls'[p] # tcalls[p]
                             /\ tcalls'[p].result = "InternalFailure" )
       => /\ teams' = teams
          /\ members' = members
          /\ selections' = selections
          /\ \A p \in Procs : calls'[p].pc = "idle" /\ tcalls'[p].pc = "idle"]_vars

\* a deletion, a selection and a removal have each failed at their commit
C25_Witness ==
    /\ calls[1].result = "InternalFailure"
    /\ calls[1].pc = "idle"
    /\ tcalls[1].result = "InternalFailure"
    /\ reply = [op |-> "remove_member", result |-> "InternalFailure"]

Outcomes ==
    {"TeamNotFound", "UnregisteredParticipant", "NoCategoryAssigned",
     "PositionNotInMapping", "AlreadyAssigned", "TeamFull",
     "FourPersonTierExhausted", "NotAuthorized", "Success",
     "OutsideSelectionWindow", "InvalidTopic", "TopicQuotaExceeded",
     "AlreadySelected", "Selected", "Changed"}

\* C27: under every interleaving, a call in progress can take its next
\* statement whatever the other calls are doing, and every call in progress
\* eventually returns one of the outcomes.
C27_EveryCallReturns ==
    /\ [](\A p \in Procs :
             (calls[p].pc # "idle" \/ tcalls[p].pc # "idle")
             => ENABLED <<LiveStep(p)>>_vars)
    /\ \A p \in Procs :
          (calls[p].pc # "idle" \/ tcalls[p].pc # "idle")
          ~> ( /\ calls[p].pc = "idle" /\ tcalls[p].pc = "idle"
               /\ (calls[p].result \in Outcomes \/ tcalls[p].result \in Outcomes) )

\* two calls in progress at once, one of them about to write
C27_Witness ==
    /\ calls[1].pc = "insert"
    /\ tcalls[2].pc = "commit"

\* C28: after any sequence of operations get_all_teams reports at most
\* MAX_TEAMS_4 active teams of 4 rows and at most MAX_TEAMS_5 of 5 rows.
C28_TierLimits ==
    /\ get_all_teams.team_count_4 <= MAX_TEAMS_4
    /\ get_all_teams.team_count_5 <= MAX_TEAMS_5

\* what a call returns for a target with one of the four categories, from
\* the numbers of rows alone
OutcomeFromRows(user_id, team_id) ==
    IF \E r \in BagToSet(members) : r.user_id = user_id THEN "AlreadyAssigned"
    ELSE IF MemberCount(team_id) >= TEAM_CEILING THEN "TeamFull"
    ELSE IF /\ MemberCount(team_id) >= TIER_THRESHOLD
            /\ Cardinality({t \in ActiveTeams \ {team_id} :
                               MemberCount(t) >= TIER_THRESHOLD}) >= MAX_TEAMS_4
    THEN "FourPersonTierExhausted"
    ELSE "Success"

C30_FirstFailure(user_id, team_id) ==
    IF ~users[user_id].is_active THEN "UnregisteredParticipant"
    ELSE IF users[user_id].position = NoPosition THEN "NoCategoryAssigned"
    ELSE IF users[user_id].position \notin POSITIONS THEN "PositionNotInMapping"
    ELSE OutcomeFromRows(user_id, team_id)

\* C30: when several failure conditions of add_member_to_team hold at once
\* the call reports the first of them in the order TeamNotFound,
\* UnregisteredParticipant, NoCategoryAssigned, AlreadyAssigned, TeamFull,
\* FourPersonTierExhausted; a target that is in a team is rejected as
\* AlreadyAssigned also when the target team is full.
C30_FailureOrder ==
    [][\A p \in Procs :
          /\ (calls[p].pc = "idle" /\ calls'[p] # calls[p])
             => IF \E i \in ActiveTeams : teams[i].name = calls'[p].team_name
                THEN calls'[p].pc = "get_user_info"
                ELSE calls'[p].pc = "idle" /\ calls'[p].result = "TeamNotFound"
          /\ Returns(p)
             => calls'[p].result = C30_FirstFailure(calls[p].user_id,
                                                    calls[p].team_id)]_vars

\* a call about to be refused for a target that is in a team, the target
\* team being full
C30_Witness ==
    /\ calls[1].pc = "existing_member"
    /\ RowsOfUser(calls[1].user_id) # {}
    /\ MemberCount(calls[1].team_id) >= TEAM_CEILING
    /\ calls[1].team_id \in ActiveTeams

\* C31: inside the selection window select_topic accepts the inputs that are
\* WORK or RUN once upper-cased and refuses every other input with
\* InvalidTopic, also for a team that does not exist; every stored selection
\* carries one of the two upper-case values.
C31_TwoTopics ==
    /\ [](\A j \in SelectionIds : selections[j].topic \in {"WORK", "RUN"})
    /\ [][(tcalls[1].pc = "idle" /\ tcalls'[1] # tcalls[1])
          => LET window == {t \in WallClock : t >= START_HOUR * 60 + START_MINUTE}
                 valid == TopicInputs \cap {"WORK", "work", "RUN", "run"}
                 refused == /\ tcalls'[1].pc = "idle"
                            /\ tcalls'[1].result = "InvalidTopic"
             IN /\ tcalls'[1].pc # "idle"
                   => tcalls'[1].topic_upper \in {"WORK", "RUN"}
                /\ ~refused
                   => \A i \in TopicCallers, topic \in TopicInputs \ valid,
                         creator_id \in TopicActors, now \in window :
                         ~SelFindTeam(1, AllNames[i], topic, creator_id, now)
                /\ refused
                   => \A i \in TopicCallers, topic \in valid,
                         creator_id \in TopicActors, now \in window :
                         ~SelFindTeam(1, AllNames[i], topic, creator_id, now)]_vars

\* an input was refused after team row 1 had been deleted, and a lower-case
\* input was stored upper-cased
C31_Witness ==
    /\ tcalls[1].result = "InvalidTopic"
    /\ ~teams[1].is_active
    /\ \E j \in SelectionIds :
          selections[j].topic = "RUN" /\ selections[j].created_at > 0

\* C32: after any sequence of create_team and delete_team calls, reactivations
\* included, at most MAX_TEAMS_5 + MAX_TEAMS_4 teams are active.
C32_ActiveTeamsBounded ==
    Cardinality({i \in TeamIds : teams[i].is_active}) <= MAX_TEAMS_5 + MAX_TEAMS_4

\* C33: a team that create_team reactivates has no membership row just
\* afterwards, whether delete_team or the admin surface had made it inactive.
C33_ReactivatedTeamIsEmpty ==
    [][\A i \in TeamIds :
          ( /\ reply' = [op |-> "create_team", result |-> "Reactivated"]
            /\ ~teams[i].is_active
            /\ teams'[i].is_active )
          => \A r \in BagToSet(members') : r.team_id # i]_vars

\* C34: no membership row's participant is the creator of the row's team.
C34_CreatorHoldsNoRow ==
    \A r \in BagToSet(members) : teams[r.team_id].creator_id # r.user_id

\* C35: a participant is the creator of at most one active team.
C35_OneTeamPerCreator ==
    \A i \in TeamIds, j \in TeamIds :
        ( /\ i # j
          /\ teams[i].is_active
          /\ teams[j].is_active )
        => teams[i].creator_id # teams[j].creator_id

\* C36: of the concurrent create_team calls for one name by different actors
\* at most one returns success, whether the name had no row or an inactive
\* row, and once all have returned the team's creator is the actor whose call
\* succeeded.
C36_OneCreateSucceeds ==
    LET won == {p \in Procs : calls[p].result \in {"Created", "Reactivated"}}
    IN /\ Cardinality(won) <= 1
       /\ (\A p \in Procs : calls[p].pc = "idle" /\ calls[p].result # "none")
          => \A p \in won :
                \E i \in TeamIds : /\ teams[i].name = TeamNames[1]
                                   /\ teams[i].is_active
                                   /\ teams[i].creator_id = p

\* C37: for every active team get_team_info and get_all_teams report the same
\* size tier in the same state.
C37_SameTier ==
    \A i \in ActiveTeams :
        get_team_info_team_type(i) = get_all_teams_team_type(i)

\* the outcomes with success = False
Failures ==
    {"TeamNotFound", "UnregisteredParticipant", "NoCategoryAssigned",
     "PositionNotInMapping", "AlreadyAssigned", "TeamFull",
     "FourPersonTierExhausted", "NotAuthorized", "NotAMember",
     "CannotRemoveSelf", "MinimumHeadcount", "DuplicateActiveName",
     "GlobalTeamCapacityExceeded", "OutsideSelectionWindow", "InvalidTopic",
     "TopicQuotaExceeded", "AlreadySelected", "InternalFailure"}

\* C38: a create_team, delete_team, add_member_to_team,
\* remove_member_from_team or select_topic call that returns a failure leaves
\* every team, membership and selection as it was.
C38_FailureChangesNothing ==
    [][( \/ reply'.result \in Failures /\ calls' = calls /\ tcalls' = tcalls
         \/ \E p \in Procs : /\ calls'[p] # calls[p]
                             /\ calls'[p].pc = "idle"
                             /\ calls'[p].result \in Failures
         \/ \E p \in Procs : /\ tcalls'[p] # tcalls[p]
                             /\ tcalls'[p].pc = "idle"
                             /\ tcalls'[p].result \in Failures )
       => /\ teams' = teams
          /\ members' = members
          /\ selections' = selections]_vars

\* C39: under every interleaving of concurrent remove_member_from_team calls
\* by callers who are not staff, every active team keeps at least one
\* membership row.
C39_TeamKeepsARow ==
    \A i \in ActiveTeams : MemberCount(i) >= 1

====
